---------------------------- MODULE Spec2Model ----------------------------
(***************************************************************************)
(* Model of src/main.py: a FastAPI service with two endpoints.            *)
(*   POST /run   run_task -> process_task -> task_A1 .. task_A10           *)
(*   GET  /read  read_file -> check_path                                   *)
(* Python strings are sequences of one-character strings, so that          *)
(* str.lower, the `in` substring test, str.startswith, str.strip,          *)
(* os.path.abspath and datetime.strptime are computed character by         *)
(* character.  Each request is a sequence of steps; the filesystem under   *)
(* /data is shared by all requests.                                        *)
(***************************************************************************)
EXTENDS Integers, Sequences, FiniteSets, TLC

(* ------------------------------ bounds -------------------------------- *)
NumReq == 3        \* requests in flight in the server specification
MaxWords == 2      \* phrases per task description (SpecRoute)
MaxComps == 3      \* components per requested path (SpecRead)
MaxLines == 3      \* lines of dates.txt (SpecA3)
MaxContacts == 3   \* records of contacts.json (SpecA4)

(* ------------------------- program constants -------------------------- *)
RecentCount == 10  \* log_files[:10]
Wednesday == 2     \* dt.weekday() == 2, Monday = 0

(* ------------------------------ strings ------------------------------- *)
Upper == <<"A", "B", "C", "D", "E", "F", "G", "H", "I", "J", "K", "L", "M",
           "N", "O", "P", "Q", "R", "S", "T", "U", "V", "W", "X", "Y", "Z">>
Lower == <<"a", "b", "c", "d", "e", "f", "g", "h", "i", "j", "k", "l", "m",
           "n", "o", "p", "q", "r", "s", "t", "u", "v", "w", "x", "y", "z">>
Digits == <<"0", "1", "2", "3", "4", "5", "6", "7", "8", "9">>
\* the code points' order on the characters the model compares:
\* space < "-" < "." < "/" < digits < "@" < upper case < "_" < lower case
CharOrder == <<" ", "-", ".", "/">> \o Digits \o <<"@">> \o Upper \o <<"_">> \o Lower
Whitespace == {" ", "\t", "\n", "\r"}

IndexOf(seq, c) == CHOOSE i \in 1..Len(seq) : seq[i] = c
Has(seq, c) == \E i \in 1..Len(seq) : seq[i] = c

\* str.lower, one character
lower_char(c) == IF Has(Upper, c) THEN Lower[IndexOf(Upper, c)] ELSE c
\* str.lower
lower(s) == [i \in 1..Len(s) |-> lower_char(s[i])]

\* s.startswith(k)
startswith(s, k) == Len(k) <= Len(s) /\ SubSeq(s, 1, Len(k)) = k
\* k in s
contains(s, k) ==
    \E i \in 1..(Len(s) - Len(k) + 1) : \A j \in 1..Len(k) : s[i + j - 1] = k[j]

RECURSIVE lstrip(_)
lstrip(s) == IF s # <<>> /\ Head(s) \in Whitespace THEN lstrip(Tail(s)) ELSE s
RECURSIVE rstrip(_)
rstrip(s) ==
    IF s # <<>> /\ s[Len(s)] \in Whitespace THEN rstrip(SubSeq(s, 1, Len(s) - 1)) ELSE s
\* str.strip
strip(s) == lstrip(rstrip(s))

\* s.split(sep) for a one-character separator
RECURSIVE split(_, _)
split(s, sep) ==
    IF ~Has(s, sep) THEN <<s>>
    ELSE LET i == CHOOSE j \in 1..Len(s) :
                     s[j] = sep /\ \A k \in 1..(j - 1) : s[k] # sep
         IN <<SubSeq(s, 1, i - 1)>> \o split(SubSeq(s, i + 1, Len(s)), sep)

\* sep.join(parts)
RECURSIVE join(_, _)
join(sep, parts) ==
    IF parts = <<>> THEN <<>>
    ELSE IF Len(parts) = 1 THEN parts[1]
    ELSE parts[1] \o sep \o join(sep, Tail(parts))

\* str(n) for n >= 0
RECURSIVE str(_)
str(n) == IF n < 10 THEN <<Digits[n + 1]>> ELSE str(n \div 10) \o <<Digits[(n % 10) + 1]>>

IsDigit(c) == Has(Digits, c)
DigitVal(c) == IndexOf(Digits, c) - 1
\* int(s) for a string of digits
RECURSIVE int(_)
int(s) == IF s = <<>> THEN 0 ELSE 10 * int(SubSeq(s, 1, Len(s) - 1)) + DigitVal(s[Len(s)])

\* the sequences over S of length at most n
SeqsUpTo(S, n) == UNION {[1..k -> S] : k \in 0..n}

(* ------------------------------- paths -------------------------------- *)
SandboxPrefix == <<"/", "d", "a", "t", "a">>
\* the paths the program names, and some it does not
P ==
    [
      format_md |-> <<"/", "d", "a", "t", "a", "/", "f", "o", "r", "m", "a", "t", ".",
          "m", "d">>,
      dates |-> <<"/", "d", "a", "t", "a", "/", "d", "a", "t", "e", "s", ".", "t", "x",
          "t">>,
      dates_out |-> <<"/", "d", "a", "t", "a", "/", "d", "a", "t", "e", "s", "-", "w",
          "e", "d", "n", "e", "s", "d", "a", "y", "s", ".", "t", "x", "t">>,
      contacts |-> <<"/", "d", "a", "t", "a", "/", "c", "o", "n", "t", "a", "c", "t", "s",
          ".", "j", "s", "o", "n">>,
      contacts_out |-> <<"/", "d", "a", "t", "a", "/", "c", "o", "n", "t", "a", "c", "t",
          "s", "-", "s", "o", "r", "t", "e", "d", ".", "j", "s", "o", "n">>,
      logs_dir |-> <<"/", "d", "a", "t", "a", "/", "l", "o", "g", "s", "/">>,
      logs_out |-> <<"/", "d", "a", "t", "a", "/", "l", "o", "g", "s", "-", "r", "e", "c",
          "e", "n", "t", ".", "t", "x", "t">>,
      docs_dir |-> <<"/", "d", "a", "t", "a", "/", "d", "o", "c", "s", "/">>,
      docs_out |-> <<"/", "d", "a", "t", "a", "/", "d", "o", "c", "s", "/", "i", "n", "d",
          "e", "x", ".", "j", "s", "o", "n">>,
      email |-> <<"/", "d", "a", "t", "a", "/", "e", "m", "a", "i", "l", ".", "t", "x",
          "t">>,
      email_out |-> <<"/", "d", "a", "t", "a", "/", "e", "m", "a", "i", "l", "-", "s",
          "e", "n", "d", "e", "r", ".", "t", "x", "t">>,
      card |-> <<"/", "d", "a", "t", "a", "/", "c", "r", "e", "d", "i", "t", "-", "c",
          "a", "r", "d", ".", "p", "n", "g">>,
      card_out |-> <<"/", "d", "a", "t", "a", "/", "c", "r", "e", "d", "i", "t", "-", "c",
          "a", "r", "d", ".", "t", "x", "t">>,
      comments |-> <<"/", "d", "a", "t", "a", "/", "c", "o", "m", "m", "e", "n", "t", "s",
          ".", "t", "x", "t">>,
      comments_out |-> <<"/", "d", "a", "t", "a", "/", "c", "o", "m", "m", "e", "n", "t",
          "s", "-", "s", "i", "m", "i", "l", "a", "r", ".", "t", "x", "t">>,
      db |-> <<"/", "d", "a", "t", "a", "/", "t", "i", "c", "k", "e", "t", "-", "s", "a",
          "l", "e", "s", ".", "d", "b">>,
      db_out |-> <<"/", "d", "a", "t", "a", "/", "t", "i", "c", "k", "e", "t", "-", "s",
          "a", "l", "e", "s", "-", "g", "o", "l", "d", ".", "t", "x", "t">>,
      outside |-> <<"/", "d", "a", "t", "a", "2", "/", "x">>,
      data |-> <<"/", "d", "a", "t", "a">>,
      logs |-> <<"/", "d", "a", "t", "a", "/", "l", "o", "g", "s">>,
      docs |-> <<"/", "d", "a", "t", "a", "/", "d", "o", "c", "s">>,
      data2 |-> <<"/", "d", "a", "t", "a", "2">>,
      app |-> <<"/", "a", "p", "p">>
    ]

Slash == <<"/">>
DotDot == <<".", ".">>

\* posixpath.normpath: the component loop
RECURSIVE norm_comps(_, _, _)
norm_comps(comps, new_comps, initial_slashes) ==
    IF comps = <<>> THEN new_comps
    ELSE LET comp == Head(comps)
             n == Len(new_comps)
         IN IF comp = <<>> \/ comp = <<".">>
            THEN norm_comps(Tail(comps), new_comps, initial_slashes)
            ELSE IF \/ comp # DotDot
                    \/ (initial_slashes = 0 /\ n = 0)
                    \/ (n > 0 /\ new_comps[n] = DotDot)
            THEN norm_comps(Tail(comps), Append(new_comps, comp), initial_slashes)
            ELSE IF n > 0
            THEN norm_comps(Tail(comps), SubSeq(new_comps, 1, n - 1), initial_slashes)
            ELSE norm_comps(Tail(comps), new_comps, initial_slashes)

\* posixpath.normpath
normpath(path) ==
    IF path = <<>> THEN <<".">>
    ELSE LET initial_slashes ==
                 IF ~startswith(path, Slash) THEN 0
                 ELSE IF startswith(path, <<"/", "/">>) /\ ~startswith(path, <<"/", "/", "/">>)
                 THEN 2 ELSE 1
             comps == norm_comps(split(path, "/"), <<>>, initial_slashes)
             joined == join(Slash, comps)
             out == IF initial_slashes = 2 THEN <<"/", "/">> \o joined
                    ELSE IF initial_slashes = 1 THEN Slash \o joined
                    ELSE joined
         IN IF out = <<>> THEN <<".">> ELSE out

\* posixpath.join(a, b)
path_join(a, b) ==
    IF startswith(b, Slash) THEN b
    ELSE IF a = <<>> \/ a[Len(a)] = "/" THEN a \o b
    ELSE a \o Slash \o b

\* os.path.abspath(path) in working directory wd
abspath(path, wd) ==
    normpath(IF startswith(path, Slash) THEN path ELSE path_join(wd, path))

\* check_path(path): TRUE when it returns, FALSE when it raises
check_path(path, wd) == startswith(abspath(path, wd), SandboxPrefix)

\* the file the kernel resolves a path to: "//" is "/" on Linux, and the
\* model's tree has no symbolic links
resolve(path, wd) ==
    LET a == abspath(path, wd)
    IN IF startswith(a, <<"/", "/">>) THEN Tail(a) ELSE a

\* the components of an absolute path, leading slashes dropped
PathComps(a) == SelectSeq(split(a, "/"), LAMBDA c : c # <<>>)
\* whether a canonical absolute path is the sandbox root or lies below it
InsideRoot(a) ==
    LET c == PathComps(a) IN c # <<>> /\ c[1] = <<"d", "a", "t", "a">>

(* --------------------------- error messages --------------------------- *)
\* the messages of the exceptions the program raises or receives
Msg ==
    [
      Forbidden |-> <<"A", "c", "c", "e", "s", "s", " ", "t", "o", " ", "f", "i", "l",
          "e", "s", " ", "o", "u", "t", "s", "i", "d", "e", " ", "/", "d", "a", "t", "a",
          " ", "i", "s", " ", "f", "o", "r", "b", "i", "d", "d", "e", "n", ".">>,
      NotRecognized |-> <<"T", "a", "s", "k", " ", "n", "o", "t", " ", "r", "e", "c", "o",
          "g", "n", "i", "z", "e", "d", ".">>,
      Deletion |-> <<"D", "e", "l", "e", "t", "i", "o", "n", " ", "o", "p", "e", "r", "a",
          "t", "i", "o", "n", "s", " ", "a", "r", "e", " ", "n", "o", "t", " ", "a", "l",
          "l", "o", "w", "e", "d", ".">>,
      TokenUnset |-> <<"A", "I", "P", "R", "O", "X", "Y", "_", "T", "O", "K", "E", "N",
          " ", "n", "o", "t", " ", "s", "e", "t">>,
      LLMPrefix |-> <<"L", "L", "M", " ", "A", "P", "I", " ", "e", "r", "r", "o", "r",
          ":", " ">>,
      EmbPrefix |-> <<"E", "m", "b", "e", "d", "d", "i", "n", "g", " ", "A", "P", "I",
          " ", "e", "r", "r", "o", "r", ":", " ">>,
      NoLogs |-> <<"N", "o", " ", ".", "l", "o", "g", " ", "f", "i", "l", "e", "s", " ",
          "f", "o", "u", "n", "d", " ", "i", "n", " ", "/", "d", "a", "t", "a", "/", "l",
          "o", "g", "s", "/">>,
      FewComments |-> <<"N", "o", "t", " ", "e", "n", "o", "u", "g", "h", " ", "c", "o",
          "m", "m", "e", "n", "t", "s", " ", "t", "o", " ", "c", "o", "m", "p", "a", "r",
          "e", ".">>,
      NoEmail |-> <<"U", "S", "E", "R", "_", "E", "M", "A", "I", "L", " ", "e", "n", "v",
          "i", "r", "o", "n", "m", "e", "n", "t", " ", "v", "a", "r", "i", "a", "b", "l",
          "e", " ", "n", "o", "t", " ", "s", "e", "t", " ", "f", "o", "r", " ", "T", "a",
          "s", "k", " ", "A", "1">>,
      Download |-> <<"F", "a", "i", "l", "e", "d", " ", "t", "o", " ", "d", "o", "w", "n",
          "l", "o", "a", "d", " ", "d", "a", "t", "a", "g", "e", "n", ".", "p", "y">>,
      ENOENT |-> <<"[", "E", "r", "r", "n", "o", " ", "2", "]", " ", "N", "o", " ", "s",
          "u", "c", "h", " ", "f", "i", "l", "e", " ", "o", "r", " ", "d", "i", "r", "e",
          "c", "t", "o", "r", "y", ":", " ">>,
      EISDIR |-> <<"[", "E", "r", "r", "n", "o", " ", "2", "1", "]", " ", "I", "s", " ",
          "a", " ", "d", "i", "r", "e", "c", "t", "o", "r", "y", ":", " ">>,
      Json |-> <<"E", "x", "p", "e", "c", "t", "i", "n", "g", " ", "v", "a", "l", "u",
          "e", ":", " ", "l", "i", "n", "e", " ", "1", " ", "c", "o", "l", "u", "m", "n",
          " ", "1", " ", "(", "c", "h", "a", "r", " ", "0", ")">>,
      Attr |-> <<"'", "s", "t", "r", "'", " ", "o", "b", "j", "e", "c", "t", " ", "h",
          "a", "s", " ", "n", "o", " ", "a", "t", "t", "r", "i", "b", "u", "t", "e", " ",
          "'", "g", "e", "t", "'">>,
      Called |-> <<"C", "o", "m", "m", "a", "n", "d", " ", "r", "e", "t", "u", "r", "n",
          "e", "d", " ", "n", "o", "n", "-", "z", "e", "r", "o", " ", "e", "x", "i", "t",
          " ", "s", "t", "a", "t", "u", "s", " ", "2", ".">>,
      TypeError |-> <<"u", "n", "s", "u", "p", "p", "o", "r", "t", "e", "d", " ", "o",
          "p", "e", "r", "a", "n", "d", " ", "t", "y", "p", "e", "(", "s", ")", " ", "f",
          "o", "r", " ", "+", ":", " ", "'", "N", "o", "n", "e", "T", "y", "p", "e", "'",
          " ", "a", "n", "d", " ", "'", "s", "t", "r", "'">>,
      Sqlite |-> <<"n", "o", " ", "s", "u", "c", "h", " ", "t", "a", "b", "l", "e", ":",
          " ", "t", "i", "c", "k", "e", "t", "s">>,
      Decode |-> <<"'", "u", "t", "f", "-", "8", "'", " ", "c", "o", "d", "e", "c", " ",
          "c", "a", "n", "'", "t", " ", "d", "e", "c", "o", "d", "e", " ", "b", "y", "t",
          "e", " ", "0", "x", "8", "9", " ", "i", "n", " ", "p", "o", "s", "i", "t", "i",
          "o", "n", " ", "0", ":", " ", "i", "n", "v", "a", "l", "i", "d", " ", "s", "t",
          "a", "r", "t", " ", "b", "y", "t", "e">>,
      KeyError |-> <<"'", "c", "h", "o", "i", "c", "e", "s", "'">>,
      Timeout |-> <<"R", "e", "a", "d", " ", "t", "i", "m", "e", "d", " ", "o", "u", "t",
          ".">>
    ]

\* the substrings process_task and run_task look for
K ==
    [
      not_recognized |-> <<"n", "o", "t", " ", "r", "e", "c", "o", "g", "n", "i", "z",
          "e", "d">>,
      Deletion_operations |-> <<"D", "e", "l", "e", "t", "i", "o", "n", " ", "o", "p",
          "e", "r", "a", "t", "i", "o", "n", "s">>,
      datagen_py |-> <<"d", "a", "t", "a", "g", "e", "n", ".", "p", "y">>,
      install_uv |-> <<"i", "n", "s", "t", "a", "l", "l", " ", "u", "v">>,
      datagen |-> <<"d", "a", "t", "a", "g", "e", "n">>,
      prettier |-> <<"p", "r", "e", "t", "t", "i", "e", "r">>,
      format_md |-> <<"f", "o", "r", "m", "a", "t", ".", "m", "d">>,
      dates_txt |-> <<"d", "a", "t", "e", "s", ".", "t", "x", "t">>,
      wednesday |-> <<"w", "e", "d", "n", "e", "s", "d", "a", "y">>,
      contacts_json |-> <<"c", "o", "n", "t", "a", "c", "t", "s", ".", "j", "s", "o", "n"
          >>,
      sort |-> <<"s", "o", "r", "t">>,
      logs |-> <<"l", "o", "g", "s">>,
      dot_log |-> <<".", "l", "o", "g">>,
      first_line |-> <<"f", "i", "r", "s", "t", " ", "l", "i", "n", "e">>,
      docs |-> <<"d", "o", "c", "s">>,
      dot_md |-> <<".", "m", "d">>,
      index |-> <<"i", "n", "d", "e", "x">>,
      h1 |-> <<"h", "1">>,
      email_txt |-> <<"e", "m", "a", "i", "l", ".", "t", "x", "t">>,
      email_sender |-> <<"e", "m", "a", "i", "l", "-", "s", "e", "n", "d", "e", "r">>,
      credit_card_png |-> <<"c", "r", "e", "d", "i", "t", "-", "c", "a", "r", "d", ".",
          "p", "n", "g">>,
      comments_txt |-> <<"c", "o", "m", "m", "e", "n", "t", "s", ".", "t", "x", "t">>,
      similar |-> <<"s", "i", "m", "i", "l", "a", "r">>,
      ticket_sales_db |-> <<"t", "i", "c", "k", "e", "t", "-", "s", "a", "l", "e", "s",
          ".", "d", "b">>,
      gold |-> <<"g", "o", "l", "d">>,
      delete |-> <<"d", "e", "l", "e", "t", "e">>,
      rm |-> <<"r", "m", " ">>,
      fetch_data |-> <<"f", "e", "t", "c", "h", " ", "d", "a", "t", "a">>,
      clone |-> <<"c", "l", "o", "n", "e">>,
      sql_query |-> <<"s", "q", "l", " ", "q", "u", "e", "r", "y">>,
      scrape |-> <<"s", "c", "r", "a", "p", "e">>,
      compress |-> <<"c", "o", "m", "p", "r", "e", "s", "s">>,
      resize |-> <<"r", "e", "s", "i", "z", "e">>,
      transcribe |-> <<"t", "r", "a", "n", "s", "c", "r", "i", "b", "e">>,
      convert_markdown |-> <<"c", "o", "n", "v", "e", "r", "t", " ", "m", "a", "r", "k",
          "d", "o", "w", "n">>,
      csv |-> <<"c", "s", "v">>
    ]

(* ---------------- router keywords and sample phrases ------------------ *)
\* phrases a task description may be made of
W ==
    [
      A1 |-> <<"r", "u", "n", " ", "d", "a", "t", "a", "g", "e", "n", ".", "p", "y">>,
      A1b |-> <<"I", "n", "s", "t", "a", "l", "l", " ", "U", "V", " ", "t", "h", "e", "n",
          " ", "d", "a", "t", "a", "g", "e", "n">>,
      A2 |-> <<"f", "o", "r", "m", "a", "t", ".", "m", "d", " ", "w", "i", "t", "h", " ",
          "P", "r", "e", "t", "t", "i", "e", "r">>,
      A3 |-> <<"c", "o", "u", "n", "t", " ", "W", "e", "d", "n", "e", "s", "d", "a", "y",
          "s", " ", "i", "n", " ", "d", "a", "t", "e", "s", ".", "t", "x", "t">>,
      A4 |-> <<"s", "o", "r", "t", " ", "c", "o", "n", "t", "a", "c", "t", "s", ".", "j",
          "s", "o", "n">>,
      logs |-> <<"f", "i", "r", "s", "t", " ", "l", "i", "n", "e", " ", "o", "f", " ",
          "l", "o", "g", "s">>,
      dotlog |-> <<"*", ".", "l", "o", "g", " ", "f", "i", "l", "e", "s">>,
      A6 |-> <<"H", "1", " ", "o", "f", " ", "d", "o", "c", "s", "/", "*", ".", "m", "d">>,
      A7 |-> <<"e", "m", "a", "i", "l", ".", "t", "x", "t", " ", "t", "o", " ", "e", "m",
          "a", "i", "l", "-", "s", "e", "n", "d", "e", "r", ".", "t", "x", "t">>,
      A8 |-> <<"c", "r", "e", "d", "i", "t", "-", "c", "a", "r", "d", ".", "p", "n", "g">>,
      A9 |-> <<"s", "i", "m", "i", "l", "a", "r", " ", "c", "o", "m", "m", "e", "n", "t",
          "s", ".", "t", "x", "t">>,
      A10 |-> <<"g", "o", "l", "d", " ", "i", "n", " ", "t", "i", "c", "k", "e", "t", "-",
          "s", "a", "l", "e", "s", ".", "d", "b">>,
      delete |-> <<"D", "E", "L", "E", "T", "E">>,
      transform |-> <<"t", "r", "a", "n", "s", "f", "o", "r", "m">>,
      csv |-> <<"c", "s", "v">>,
      clone |-> <<"C", "l", "o", "n", "e">>,
      hello |-> <<"h", "e", "l", "l", "o">>
    ]

\* the business-task keywords of process_task, in the order of the list
BusinessKeywords ==
    <<K.fetch_data, K.clone, K.sql_query, K.scrape, K.compress, K.resize,
      K.transcribe, K.convert_markdown, K.csv>>

\* phrases a task description is made of
Phrases ==
    {W.A1, W.A1b, W.A2, W.A3, W.A4, W.logs, W.dotlog, W.A6, W.A7, W.A8, W.A9,
     W.A10, W.delete, W.transform, W.csv, W.clone, W.hello}
\* the descriptions of at most n phrases, joined by single spaces
Descriptions(n) == {join(<<" ">>, ws) : ws \in SeqsUpTo(Phrases, n)}

(* ------------------------------- state -------------------------------- *)
VARIABLES
    fs,       \* the files and directories the service can see: node -> content
    cwd,      \* the process's working directory
    environ,  \* os.environ: AIPROXY_TOKEN and USER_EMAIL
    pc,       \* each request's position in its endpoint function
    op,       \* each request's endpoint: "run" or "read"
    arg,      \* each request's query parameter: the task or the path
    loc,      \* each request's local variables
    resp,     \* each request's HTTP response
    ops       \* the filesystem calls GET /read made: <<request, call, path>>

vars == <<fs, cwd, environ, pc, op, arg, loc, resp, ops>>

Req == 1..NumReq

Missing == [kind |-> "missing", val |-> <<>>]
Text(v) == [kind |-> "text", val |-> v]
Json(v) == [kind |-> "json", val |-> v]
Dir(v) == [kind |-> "dir", val |-> v]
Exists(c) == c.kind # "missing"

\* directories that always exist in the model's tree
Dirs == {Slash, P.data, P.data2}

\* the paths of the tree whose content can change
InputPaths ==
    {P.dates, P.contacts, P.logs, P.docs, P.email, P.card, P.comments, P.db, P.format_md}
OutputPaths ==
    {P.dates_out, P.contacts_out, P.logs_out, P.docs_out, P.email_out, P.card_out,
     P.comments_out, P.db_out}
Paths == InputPaths \cup OutputPaths \cup {P.outside}
\* the node an absolute path of the tree names: its text after the last
\* directory of the model
node(path) ==
    CASE path = P.dates -> "dates.txt"
      [] path = P.dates_out -> "dates-wednesdays.txt"
      [] path = P.contacts -> "contacts.json"
      [] path = P.contacts_out -> "contacts-sorted.json"
      [] path = P.logs -> "logs/"
      [] path = P.logs_out -> "logs-recent.txt"
      [] path = P.docs -> "docs/"
      [] path = P.docs_out -> "docs/index.json"
      [] path = P.email -> "email.txt"
      [] path = P.email_out -> "email-sender.txt"
      [] path = P.card -> "credit-card.png"
      [] path = P.card_out -> "credit-card.txt"
      [] path = P.comments -> "comments.txt"
      [] path = P.comments_out -> "comments-similar.txt"
      [] path = P.db -> "ticket-sales.db"
      [] path = P.db_out -> "ticket-sales-gold.txt"
      [] path = P.format_md -> "format.md"
      [] path = P.outside -> "/data2/x"
Nodes == {node(path) : path \in Paths}

NoLoc == [snap |-> <<>>, data |-> <<>>]
NoResp == [status |-> 0, detail |-> <<>>, content |-> Missing, message |-> ""]
\* raise HTTPException(status_code, detail)
HTTPException(status_code, detail) ==
    [status |-> status_code, detail |-> detail, content |-> Missing, message |-> ""]
Quote(path) == <<"'">> \o path \o <<"'">>

Goto(p, l) == pc' = [pc EXCEPT ![p] = l]
Respond(p, r) == resp' = [resp EXCEPT ![p] = r] /\ Goto(p, "done")

\* request p arrives: requests are numbered in the order of their arrival
Arrives(p) == pc[p] = "idle" /\ \A q \in 1..(p - 1) : pc[q] # "idle"

(* ------------------------------ GET /read ----------------------------- *)
\* a GET /read request arrives
read_request(p, path) ==
    /\ Arrives(p)
    /\ op' = [op EXCEPT ![p] = "read"]
    /\ arg' = [arg EXCEPT ![p] = path]
    /\ Goto(p, "read_check")
    /\ UNCHANGED <<fs, cwd, environ, loc, resp, ops>>

\* read_file: check_path(path); its Exception falls to `except Exception`
read_file_check(p) ==
    /\ pc[p] = "read_check"
    /\ IF check_path(arg[p], cwd)
       THEN Goto(p, "read_exists") /\ UNCHANGED resp
       ELSE Respond(p, HTTPException(500, Msg.Forbidden))
    /\ UNCHANGED <<fs, cwd, environ, op, arg, loc, ops>>

\* os.path.exists(path)
path_exists(path) ==
    LET a == resolve(path, cwd)
    IN a \in Dirs \/ (a \in Paths /\ Exists(fs[node(a)]))

\* read_file: if not os.path.exists(path): raise HTTPException(404)
read_file_exists(p) ==
    /\ pc[p] = "read_exists"
    /\ ops' = ops \cup {<<p, "exists", arg[p]>>}
    /\ IF path_exists(arg[p])
       THEN Goto(p, "read_open") /\ UNCHANGED resp
       ELSE Respond(p, HTTPException(404, <<>>))
    /\ UNCHANGED <<fs, cwd, environ, op, arg, loc>>

\* read_file: open(path, "r"), f.read(), return content
read_file_open(p) ==
    /\ pc[p] = "read_open"
    /\ ops' = ops \cup {<<p, "open", arg[p]>>}
    /\ LET a == resolve(arg[p], cwd)
       IN IF a \in Dirs \/ (a \in Paths /\ fs[node(a)].kind = "dir")
          THEN Respond(p, HTTPException(500, Msg.EISDIR \o Quote(arg[p])))
          ELSE IF ~path_exists(arg[p])
          THEN Respond(p, HTTPException(500, Msg.ENOENT \o Quote(arg[p])))
          ELSE IF fs[node(a)].kind \in {"bin", "db"}
          THEN Respond(p, HTTPException(500, Msg.Decode))
          ELSE Respond(p, [NoResp EXCEPT !.status = 200, !.content = fs[node(a)]])
    /\ UNCHANGED <<fs, cwd, environ, op, arg, loc>>

read_file(p) == read_file_check(p) \/ read_file_exists(p) \/ read_file_open(p)

(* ------------------------------ POST /run ----------------------------- *)
\* a variant of the chain that tests the deletion keywords before the handlers
select_branch_deny_first(task_lower) ==
    LET has(k) == contains(task_lower, k)
    IN IF has(K.delete) \/ has(K.rm) THEN "deny"
       ELSE IF has(K.datagen_py) \/ (has(K.install_uv) /\ has(K.datagen)) THEN "A1"
       ELSE IF has(K.prettier) /\ has(K.format_md) THEN "A2"
       ELSE IF has(K.dates_txt) /\ has(K.wednesday) THEN "A3"
       ELSE IF has(K.contacts_json) /\ has(K.sort) THEN "A4"
       ELSE IF has(K.logs) /\ has(K.dot_log) /\ has(K.first_line) THEN "A5"
       ELSE IF has(K.docs) /\ has(K.dot_md) /\ (has(K.index) \/ has(K.h1)) THEN "A6"
       ELSE IF has(K.email_txt) /\ has(K.email_sender) THEN "A7"
       ELSE IF has(K.credit_card_png) THEN "A8"
       ELSE IF has(K.comments_txt) /\ has(K.similar) THEN "A9"
       ELSE IF has(K.ticket_sales_db) /\ has(K.gold) THEN "A10"
       ELSE IF \E i \in 1..Len(BusinessKeywords) : has(BusinessKeywords[i])
       THEN "business"
       ELSE "unknown"

\* process_task: the if/elif chain over task_lower; the branch taken
select_branch(task_lower) ==
    LET has(k) == contains(task_lower, k)
    IN IF has(K.datagen_py) \/ (has(K.install_uv) /\ has(K.datagen)) THEN "A1"
       ELSE IF has(K.prettier) /\ has(K.format_md) THEN "A2"
       ELSE IF has(K.dates_txt) /\ has(K.wednesday) THEN "A3"
       ELSE IF has(K.contacts_json) /\ has(K.sort) THEN "A4"
       ELSE IF has(K.logs) /\ has(K.dot_log) /\ has(K.first_line) THEN "A5"
       ELSE IF has(K.docs) /\ has(K.dot_md) /\ (has(K.index) \/ has(K.h1)) THEN "A6"
       ELSE IF has(K.email_txt) /\ has(K.email_sender) THEN "A7"
       ELSE IF has(K.credit_card_png) THEN "A8"
       ELSE IF has(K.comments_txt) /\ has(K.similar) THEN "A9"
       ELSE IF has(K.ticket_sales_db) /\ has(K.gold) THEN "A10"
       ELSE IF has(K.delete) \/ has(K.rm) THEN "deny"
       ELSE IF \E i \in 1..Len(BusinessKeywords) : has(BusinessKeywords[i])
       THEN "business"
       ELSE "unknown"

\* process_task: task_lower = task.lower(), then the chain
process_task(task) == select_branch(lower(task))

Handlers == {"A1", "A2", "A3", "A4", "A5", "A6", "A7", "A8", "A9", "A10"}

\* run_task: the except branch, which picks the status from the message
run_task_except(err_msg) ==
    IF contains(err_msg, K.not_recognized) \/ contains(err_msg, K.Deletion_operations)
    THEN HTTPException(400, err_msg)
    ELSE HTTPException(500, err_msg)

\* an exception leaves process_task and is answered by run_task
Raise(p, err_msg) == Respond(p, run_task_except(err_msg))
\* run_task: return {"message": result}
Return(p, result) == Respond(p, [NoResp EXCEPT !.status = 200, !.message = result])

\* a POST /run request arrives
run_request(p, task) ==
    /\ Arrives(p)
    /\ op' = [op EXCEPT ![p] = "run"]
    /\ arg' = [arg EXCEPT ![p] = task]
    /\ Goto(p, "route")
    /\ UNCHANGED <<fs, cwd, environ, loc, resp, ops>>

\* process_task_business: the stub
process_business_task(task) == "Business task executed (stub)."

\* run_task calls process_task, which selects a branch
run_task(p) ==
    /\ pc[p] = "route"
    /\ LET branch == process_task(arg[p])
       IN IF branch \in Handlers THEN Goto(p, branch) /\ UNCHANGED resp
          ELSE IF branch = "deny" THEN Raise(p, Msg.Deletion)
          ELSE IF branch = "business" THEN Return(p, process_business_task(arg[p]))
          ELSE Raise(p, Msg.NotRecognized)
    /\ UNCHANGED <<fs, cwd, environ, op, arg, loc, ops>>

(* ------------------------ handler building blocks --------------------- *)
\* open(path, "w"): the file is created or truncated
open_w(p, path, next) ==
    /\ fs' = [fs EXCEPT ![node(path)] = Text(<<>>)]
    /\ Goto(p, next)
    /\ UNCHANGED <<resp, loc>>

\* f.write(content), the end of the with block, and the handler's return
write_close(p, path, content, result) ==
    /\ fs' = [fs EXCEPT ![node(path)] = content]
    /\ Return(p, result)
    /\ UNCHANGED loc

\* the local variables a handler keeps between its steps
Locals(p, snap, data, next) ==
    /\ loc' = [loc EXCEPT ![p] = [snap |-> snap, data |-> data]]
    /\ Goto(p, next)
    /\ UNCHANGED <<fs, resp>>

\* a handler raises before it has written anything
Fail(p, err_msg) == Raise(p, err_msg) /\ UNCHANGED <<fs, loc>>

\* f.readlines(): the lines, each with its newline
readlines(text) ==
    LET parts == split(text, "\n")
        n == Len(parts)
    IN [i \in 1..(IF parts[n] = <<>> THEN n - 1 ELSE n) |->
            IF i < n THEN parts[i] \o <<"\n">> ELSE parts[i]]

(* ------------------------------ task_A3 ------------------------------- *)
is_leap(y) == y % 4 = 0 /\ (y % 100 # 0 \/ y % 400 = 0)
days_in_month(y, m) ==
    IF m = 2 THEN (IF is_leap(y) THEN 29 ELSE 28)
    ELSE IF m \in {4, 6, 9, 11} THEN 30 ELSE 31
days_before_year(y) ==
    (y - 1) * 365 + ((y - 1) \div 4) - ((y - 1) \div 100) + ((y - 1) \div 400)
RECURSIVE days_before_month(_, _)
days_before_month(y, m) ==
    IF m = 1 THEN 0 ELSE days_before_month(y, m - 1) + days_in_month(y, m - 1)
\* date.toordinal
toordinal(y, m, d) == days_before_year(y) + days_before_month(y, m) + d
\* date.isoweekday: Monday is 1
isoweekday(dt) == ((toordinal(dt[1], dt[2], dt[3]) + 6) % 7) + 1
\* date.weekday: Monday is 0
weekday(dt) == (toordinal(dt[1], dt[2], dt[3]) + 6) % 7

\* the directives of "%Y-%m-%d" as _strptime's regular expressions
\*   %Y  \d\d\d\d     %m  1[0-2]|0[1-9]|[1-9]
\*   %d  3[0-1]|[1-2]\d|0[1-9]|[1-9]| [1-9]
match_Y(s) == Len(s) = 4 /\ \A i \in 1..4 : IsDigit(s[i])
match_m(s) ==
    \/ Len(s) = 2 /\ s[1] = "1" /\ s[2] \in {"0", "1", "2"}
    \/ Len(s) = 2 /\ s[1] = "0" /\ IsDigit(s[2]) /\ s[2] # "0"
    \/ Len(s) = 1 /\ IsDigit(s[1]) /\ s[1] # "0"
match_d(s) ==
    \/ Len(s) = 2 /\ s[1] = "3" /\ s[2] \in {"0", "1"}
    \/ Len(s) = 2 /\ s[1] \in {"1", "2"} /\ IsDigit(s[2])
    \/ Len(s) = 2 /\ s[1] \in {"0", " "} /\ IsDigit(s[2]) /\ s[2] # "0"
    \/ Len(s) = 1 /\ IsDigit(s[1]) /\ s[1] # "0"

\* datetime.strptime(line, "%Y-%m-%d"): <<year, month, day>>, or <<>> for
\* ValueError
strptime(line) ==
    LET f == split(line, "-")
    IN IF Len(f) # 3 THEN <<>>
       ELSE IF ~(match_Y(f[1]) /\ match_m(f[2]) /\ match_d(f[3])) THEN <<>>
       ELSE LET y == int(f[1])
                m == int(f[2])
                d == int(SelectSeq(f[3], IsDigit))
            IN IF y < 1 \/ d > days_in_month(y, m) THEN <<>> ELSE <<y, m, d>>

\* task_A3: the loop over the lines
RECURSIVE count_wednesdays(_)
count_wednesdays(lines) ==
    IF lines = <<>> THEN 0
    ELSE LET line == strip(Head(lines))
             rest == count_wednesdays(Tail(lines))
         IN IF line = <<>> THEN rest
            ELSE LET dt == strptime(line)
                 IN IF dt = <<>> THEN rest
                    ELSE IF weekday(dt) = Wednesday THEN rest + 1 ELSE rest

\* task_A3: check_path, open(input_path), readlines, the counting loop
task_A3_read(p) ==
    /\ pc[p] = "A3"
    /\ IF ~(check_path(P.dates, cwd) /\ check_path(P.dates_out, cwd))
       THEN Fail(p, Msg.Forbidden)
       ELSE IF ~Exists(fs[node(P.dates)]) THEN Fail(p, Msg.ENOENT \o Quote(P.dates))
       ELSE Locals(p, fs[node(P.dates)].val,
                   str(count_wednesdays(readlines(fs[node(P.dates)].val))), "A3_open")
task_A3_open(p) == pc[p] = "A3_open" /\ open_w(p, P.dates_out, "A3_write")
\* a variant of the write that counts again from what dates.txt holds by then
task_A3_write_recount(p) ==
    /\ pc[p] = "A3_write"
    /\ write_close(p, P.dates_out,
                   Text(str(count_wednesdays(readlines(fs[node(P.dates)].val)))),
                   "Task A3 executed successfully.")
task_A3_write(p) ==
    /\ pc[p] = "A3_write"
    /\ write_close(p, P.dates_out, Text(loc[p].data), "Task A3 executed successfully.")
task_A3(p) ==
    /\ task_A3_read(p) \/ task_A3_open(p) \/ task_A3_write(p)
    /\ UNCHANGED <<cwd, environ, op, arg, ops>>

(* ------------------------------ task_A4 ------------------------------- *)
\* x.get(k, "")
get(x, k) == IF k \in DOMAIN x THEN x[k] ELSE <<>>
CharRank(c) == IndexOf(CharOrder, c)
\* a < b on strings
RECURSIVE str_lt(_, _)
str_lt(a, b) ==
    IF b = <<>> THEN FALSE
    ELSE IF a = <<>> THEN TRUE
    ELSE IF Head(a) = Head(b) THEN str_lt(Tail(a), Tail(b))
    ELSE CharRank(Head(a)) < CharRank(Head(b))
\* a variant of the key with the two names in the other order
contact_key_first_last(x) == <<get(x, "first_name"), get(x, "last_name")>>
\* the sort key: lambda x: (x.get("last_name", ""), x.get("first_name", ""))
contact_key(x) == <<get(x, "last_name"), get(x, "first_name")>>
\* a < b on the key tuples
key_lt(a, b) == str_lt(a[1], b[1]) \/ (a[1] = b[1] /\ str_lt(a[2], b[2]))
\* sorted(): a stable sort, here by insertion after the last element not
\* greater than the new one
RECURSIVE insert_sorted(_, _)
insert_sorted(x, s) ==
    IF s = <<>> THEN <<x>>
    ELSE IF key_lt(contact_key(x), contact_key(Head(s))) THEN <<x>> \o s
    ELSE <<Head(s)>> \o insert_sorted(x, Tail(s))
RECURSIVE sorted(_)
sorted(contacts) ==
    IF contacts = <<>> THEN <<>>
    ELSE insert_sorted(contacts[Len(contacts)],
                       sorted(SubSeq(contacts, 1, Len(contacts) - 1)))

\* task_A4: check_path, json.load(f), sorted(...)
task_A4_read(p) ==
    /\ pc[p] = "A4"
    /\ LET c == fs[node(P.contacts)]
       IN IF ~(check_path(P.contacts, cwd) /\ check_path(P.contacts_out, cwd))
          THEN Fail(p, Msg.Forbidden)
          ELSE IF ~Exists(c) THEN Fail(p, Msg.ENOENT \o Quote(P.contacts))
          ELSE IF c.kind = "text" THEN Fail(p, Msg.Json)
          ELSE IF c.kind = "jsonobj" THEN Fail(p, Msg.Attr)
          ELSE Locals(p, c.val, sorted(c.val), "A4_open")
task_A4_open(p) == pc[p] = "A4_open" /\ open_w(p, P.contacts_out, "A4_write")
task_A4_write(p) ==
    /\ pc[p] = "A4_write"
    /\ write_close(p, P.contacts_out, Json(loc[p].data), "Task A4 executed successfully.")
task_A4(p) ==
    /\ task_A4_read(p) \/ task_A4_open(p) \/ task_A4_write(p)
    /\ UNCHANGED <<cwd, environ, op, arg, ops>>

(* ------------------------------ task_A5 ------------------------------- *)
DotLog == <<".", "l", "o", "g">>
endswith(s, k) == Len(k) <= Len(s) /\ SubSeq(s, Len(s) - Len(k) + 1, Len(s)) = k
\* glob.glob(os.path.join(logs_dir, "*.log")): the directory's entries, in
\* the directory's order, whose names end in .log and do not start with "."
glob_logs(d) ==
    IF d.kind # "dir" THEN <<>>
    ELSE SelectSeq(d.val, LAMBDA e : endswith(e.name, DotLog) /\ e.name[1] # ".")
\* log_files.sort(key=getmtime, reverse=True): stable, newest first
RECURSIVE insert_by_mtime(_, _)
insert_by_mtime(e, s) ==
    IF s = <<>> THEN <<e>>
    ELSE IF e.mtime > Head(s).mtime THEN <<e>> \o s
    ELSE <<Head(s)>> \o insert_by_mtime(e, Tail(s))
RECURSIVE sort_by_mtime(_)
sort_by_mtime(files) ==
    IF files = <<>> THEN <<>>
    ELSE insert_by_mtime(files[Len(files)], sort_by_mtime(SubSeq(files, 1, Len(files) - 1)))
\* f.readline().strip() of each of the first ten
first_lines(files) ==
    LET recent_files == SubSeq(files, 1, IF Len(files) < RecentCount THEN Len(files)
                                         ELSE RecentCount)
    IN [i \in 1..Len(recent_files) |-> strip(recent_files[i].first)]

\* a variant of task_A5 without the test for an empty list of log files
task_A5_read_unguarded(p) ==
    /\ pc[p] = "A5"
    /\ LET log_files == glob_logs(fs[node(P.logs)])
       IN IF ~(check_path(P.logs_dir, cwd) /\ check_path(P.logs_out, cwd))
          THEN Fail(p, Msg.Forbidden)
          ELSE Locals(p, log_files,
                      join(<<"\n">>, first_lines(sort_by_mtime(log_files))), "A5_open")

\* task_A5: check_path, glob, sort, the first lines
task_A5_read(p) ==
    /\ pc[p] = "A5"
    /\ LET log_files == glob_logs(fs[node(P.logs)])
       IN IF ~(check_path(P.logs_dir, cwd) /\ check_path(P.logs_out, cwd))
          THEN Fail(p, Msg.Forbidden)
          ELSE IF log_files = <<>> THEN Fail(p, Msg.NoLogs)
          ELSE Locals(p, log_files,
                      join(<<"\n">>, first_lines(sort_by_mtime(log_files))), "A5_open")
task_A5_open(p) == pc[p] = "A5_open" /\ open_w(p, P.logs_out, "A5_write")
task_A5_write(p) ==
    /\ pc[p] = "A5_write"
    /\ write_close(p, P.logs_out, Text(loc[p].data), "Task A5 executed successfully.")
task_A5(p) ==
    /\ task_A5_read(p) \/ task_A5_open(p) \/ task_A5_write(p)
    /\ UNCHANGED <<cwd, environ, op, arg, ops>>

(* --------------------- call_llm and get_embedding --------------------- *)
\* what the remote proxy may answer: the bodies of its error responses and the
\* message contents of its completions
\* sample contents: lines of dates.txt, directory entries, files, answers of the
\* remote proxy, environment values
Data ==
    [
      r_rate_limited |-> <<"r", "a", "t", "e", " ", "l", "i", "m", "i", "t", "e", "d">>,
      r_model_unknown |-> <<"m", "o", "d", "e", "l", " ", "n", "o", "t", " ", "r", "e",
          "c", "o", "g", "n", "i", "z", "e", "d">>,
      reply_email |-> <<" ", "a", "@", "b", ".", "c", "\n">>,
      reply_card |-> <<"4", "1", "1", "1", " ", "1", "1", "1", "1">>,
      wed1 |-> <<"2", "0", "2", "4", "-", "0", "1", "-", "0", "3">>,
      thu |-> <<"2", "0", "2", "4", "-", "0", "1", "-", "0", "4">>,
      wed2 |-> <<"2", "0", "2", "4", "-", "0", "1", "-", "1", "0">>,
      padded |-> <<" ", " ", "2", "0", "2", "4", "-", "0", "1", "-", "1", "7", "\t">>,
      blank |-> <<>>,
      words |-> <<"n", "o", "t", " ", "a", " ", "d", "a", "t", "e">>,
      nonleap |-> <<"2", "0", "2", "3", "-", "0", "2", "-", "2", "9">>,
      short |-> <<"2", "0", "2", "4", "-", "1", "-", "3">>,
      trailing |-> <<"2", "0", "2", "4", "-", "0", "1", "-", "0", "3", "x">>,
      n_a_log |-> <<"a", ".", "l", "o", "g">>,
      n_b_log |-> <<"b", ".", "l", "o", "g">>,
      n_notes |-> <<"n", "o", "t", "e", "s", ".", "t", "x", "t">>,
      n_a_md |-> <<"a", ".", "m", "d">>,
      n_b_md |-> <<"s", "u", "b", "/", "b", ".", "m", "d">>,
      log_a |-> <<"a", "l", "p", "h", "a", "\n", "s", "e", "c", "o", "n", "d", "\n">>,
      log_b |-> <<" ", "b", "e", "t", "a", " ", "\n">>,
      md_a |-> <<"i", "n", "t", "r", "o", "\n", "#", "#", " ", "T", "i", "t", "l", "e",
          " ", "A", "\n", "m", "o", "r", "e", "\n">>,
      md_b |-> <<"n", "o", " ", "h", "e", "a", "d", "i", "n", "g", "\n">>,
      email_1 |-> <<"F", "r", "o", "m", ":", " ", "a", "@", "b", ".", "c", "\n", "H", "i",
          "\n">>,
      email_2 |-> <<"F", "r", "o", "m", ":", " ", "x", "@", "y", ".", "z", "\n">>,
      png_1 |-> <<"P", "N", "G">>,
      comments_1 |-> <<"g", "o", "o", "d", "\n", "\n", "g", "r", "e", "a", "t", "\n", "b",
          "a", "d", "\n">>,
      comments_2 |-> <<"o", "n", "l", "y", "\n">>,
      format_raw |-> <<"#", " ", "T", " ", " ", "\n">>,
      old_text |-> <<"o", "l", "d">>,
      secret |-> <<"s", "e", "c", "r", "e", "t">>,
      tok |-> <<"t", "o", "k">>,
      mail |-> <<"u", "@", "e", ".", "x">>
    ]

RemoteTexts == {Data.r_rate_limited, Data.r_model_unknown}
LLMReplies == {Data.reply_email, Data.reply_card}
\* the embedding vectors the proxy may return
Vectors == {<<1, 0>>, <<-1, 0>>, <<3, 4>>, <<0, 0>>}

Ok(v) == [ok |-> TRUE, val |-> v]
Err(m) == [ok |-> FALSE, val |-> m]

\* call_llm(prompt): the outcomes of one call, a returned string or a raised
\* exception's message
call_llm(prompt) ==
    IF environ.AIPROXY_TOKEN = <<>> THEN {Err(Msg.TokenUnset)}
    ELSE {Err(Msg.Timeout), Err(Msg.KeyError)}
         \cup {Err(Msg.LLMPrefix \o t) : t \in RemoteTexts}
         \cup {Ok(strip(c)) : c \in LLMReplies}

\* get_embedding(text): the outcomes of one call
get_embedding(text) ==
    IF environ.AIPROXY_TOKEN = <<>> THEN {Err(Msg.TokenUnset)}
    ELSE {Err(Msg.Timeout)}
         \cup {Err(Msg.EmbPrefix \o t) : t \in RemoteTexts}
         \cup {Ok(v) : v \in Vectors}

(* ------------------------------ task_A7 ------------------------------- *)
\* a variant of task_A7 that opens the output file before it calls the LLM
task_A7_read_open_first(p) ==
    /\ pc[p] = "A7"
    /\ IF ~(check_path(P.email, cwd) /\ check_path(P.email_out, cwd))
       THEN Fail(p, Msg.Forbidden)
       ELSE IF ~Exists(fs[node(P.email)]) THEN Fail(p, Msg.ENOENT \o Quote(P.email))
       ELSE \E r \in call_llm(fs[node(P.email)].val) :
                IF r.ok THEN Locals(p, fs[node(P.email)].val, r.val, "A7_open")
                ELSE /\ Raise(p, r.val)
                     /\ fs' = [fs EXCEPT ![node(P.email_out)] = Text(<<>>)]
                     /\ UNCHANGED loc

\* task_A7: check_path, f.read(), call_llm(prompt)
task_A7_read(p) ==
    /\ pc[p] = "A7"
    /\ IF ~(check_path(P.email, cwd) /\ check_path(P.email_out, cwd))
       THEN Fail(p, Msg.Forbidden)
       ELSE IF ~Exists(fs[node(P.email)]) THEN Fail(p, Msg.ENOENT \o Quote(P.email))
       ELSE \E r \in call_llm(fs[node(P.email)].val) :
                IF r.ok THEN Locals(p, fs[node(P.email)].val, r.val, "A7_open")
                ELSE Fail(p, r.val)
task_A7_open(p) == pc[p] = "A7_open" /\ open_w(p, P.email_out, "A7_write")
task_A7_write(p) ==
    /\ pc[p] = "A7_write"
    /\ write_close(p, P.email_out, Text(loc[p].data), "Task A7 executed successfully.")
task_A7(p) ==
    /\ task_A7_read(p) \/ task_A7_open(p) \/ task_A7_write(p)
    /\ UNCHANGED <<cwd, environ, op, arg, ops>>

(* ------------------------------ task_A8 ------------------------------- *)
\* result.replace(" ", "")
remove_spaces(s) == SelectSeq(s, LAMBDA c : c # " ")
\* task_A8: check_path, f.read() of the image, call_llm, replace
task_A8_read(p) ==
    /\ pc[p] = "A8"
    /\ IF ~(check_path(P.card, cwd) /\ check_path(P.card_out, cwd))
       THEN Fail(p, Msg.Forbidden)
       ELSE IF ~Exists(fs[node(P.card)]) THEN Fail(p, Msg.ENOENT \o Quote(P.card))
       ELSE \E r \in call_llm(fs[node(P.card)].val) :
                IF r.ok THEN Locals(p, fs[node(P.card)].val, remove_spaces(r.val), "A8_open")
                ELSE Fail(p, r.val)
task_A8_open(p) == pc[p] = "A8_open" /\ open_w(p, P.card_out, "A8_write")
task_A8_write(p) ==
    /\ pc[p] = "A8_write"
    /\ write_close(p, P.card_out, Text(loc[p].data), "Task A8 executed successfully.")
task_A8(p) ==
    /\ task_A8_read(p) \/ task_A8_open(p) \/ task_A8_write(p)
    /\ UNCHANGED <<cwd, environ, op, arg, ops>>

(* ------------------------------ task_A9 ------------------------------- *)
\* [line.strip() for line in f if line.strip()]
nonblank(lines) ==
    SelectSeq([i \in 1..Len(lines) |-> strip(lines[i])], LAMBDA l : l # <<>>)
dot(a, b) == a[1] * b[1] + a[2] * b[2]
\* sum(x * x for x in a) ** 0.5, for the vectors of the model, whose squared
\* norms are perfect squares
norm(a) == CHOOSE r \in 0..(dot(a, a)) : r * r = dot(a, a)
\* cosine_similarity(a, b) as a fraction <<numerator, denominator>>
cosine_similarity(a, b) ==
    IF norm(a) = 0 \/ norm(b) = 0 THEN <<0, 1>> ELSE <<dot(a, b), norm(a) * norm(b)>>
\* x > y on fractions with positive denominators
frac_gt(x, y) == x[1] * y[2] > y[1] * x[2]
\* the double loop: the pair of the first strictly greatest similarity, or
\* <<>> for (None, None) when no similarity exceeds -1
RECURSIVE most_similar(_, _, _, _, _, _)
most_similar(comments, embeddings, i, j, max_sim, pair) ==
    IF i > Len(comments) THEN pair
    ELSE IF j > Len(comments)
    THEN most_similar(comments, embeddings, i + 1, i + 2, max_sim, pair)
    ELSE LET sim == cosine_similarity(embeddings[i], embeddings[j])
         IN IF frac_gt(sim, max_sim)
            THEN most_similar(comments, embeddings, i, j + 1, sim,
                              <<comments[i], comments[j]>>)
            ELSE most_similar(comments, embeddings, i, j + 1, max_sim, pair)

\* task_A9: check_path, the comments, one get_embedding per comment, the pair
task_A9_read(p) ==
    /\ pc[p] = "A9"
    /\ IF ~(check_path(P.comments, cwd) /\ check_path(P.comments_out, cwd))
       THEN Fail(p, Msg.Forbidden)
       ELSE IF ~Exists(fs[node(P.comments)]) THEN Fail(p, Msg.ENOENT \o Quote(P.comments))
       ELSE LET comments == nonblank(readlines(fs[node(P.comments)].val))
            IN IF Len(comments) < 2 THEN Fail(p, Msg.FewComments)
               ELSE \/ \E i \in 1..Len(comments) :
                          \E r \in get_embedding(comments[i]) :
                              ~r.ok /\ Fail(p, r.val)
                    \/ /\ environ.AIPROXY_TOKEN # <<>>
                       /\ \E embeddings \in [1..Len(comments) -> Vectors] :
                              Locals(p, comments,
                                     most_similar(comments, embeddings, 1, 2,
                                                  <<-1, 1>>, <<>>),
                                     "A9_open")
task_A9_open(p) == pc[p] = "A9_open" /\ open_w(p, P.comments_out, "A9_write")
\* f.write(pair[0] + "\n" + pair[1]): TypeError when pair is (None, None), the
\* file already truncated
task_A9_write(p) ==
    /\ pc[p] = "A9_write"
    /\ IF loc[p].data = <<>>
       THEN Raise(p, Msg.TypeError) /\ UNCHANGED <<fs, loc>>
       ELSE write_close(p, P.comments_out,
                        Text(loc[p].data[1] \o <<"\n">> \o loc[p].data[2]),
                        "Task A9 executed successfully.")
task_A9(p) ==
    /\ task_A9_read(p) \/ task_A9_open(p) \/ task_A9_write(p)
    /\ UNCHANGED <<cwd, environ, op, arg, ops>>

(* ------------------------------ task_A6 ------------------------------- *)
RECURSIVE lstrip_hash(_)
\* line.lstrip("#")
lstrip_hash(s) == IF s # <<>> /\ Head(s) = "#" THEN lstrip_hash(Tail(s)) ELSE s
\* the title of the first line that starts with "#", or <<>> when there is none
RECURSIVE first_heading(_)
first_heading(lines) ==
    IF lines = <<>> THEN <<>>
    ELSE IF startswith(Head(lines), <<"#">>) THEN <<strip(lstrip_hash(Head(lines)))>>
    ELSE first_heading(Tail(lines))
\* the index: <<relative path, title>> for each file with a heading
RECURSIVE build_index(_)
build_index(md_files) ==
    IF md_files = <<>> THEN <<>>
    ELSE LET h == first_heading(readlines(Head(md_files).text))
         IN (IF h = <<>> THEN <<>> ELSE <<<<Head(md_files).rel, h[1]>>>>)
            \o build_index(Tail(md_files))
\* task_A6: check_path, glob, the headings, os.makedirs
task_A6_read(p) ==
    /\ pc[p] = "A6"
    /\ IF ~(check_path(P.docs_dir, cwd) /\ check_path(P.docs_out, cwd))
       THEN Fail(p, Msg.Forbidden)
       ELSE LET md_files == IF fs[node(P.docs)].kind = "dir" THEN fs[node(P.docs)].val ELSE <<>>
            IN /\ loc' = [loc EXCEPT ![p] = [snap |-> md_files,
                                             data |-> build_index(md_files)]]
               /\ fs' = IF Exists(fs[node(P.docs)]) THEN fs ELSE [fs EXCEPT ![node(P.docs)] = Dir(<<>>)]
               /\ Goto(p, "A6_open")
               /\ UNCHANGED resp
task_A6_open(p) == pc[p] = "A6_open" /\ open_w(p, P.docs_out, "A6_write")
task_A6_write(p) ==
    /\ pc[p] = "A6_write"
    /\ write_close(p, P.docs_out, Json(loc[p].data), "Task A6 executed successfully.")
task_A6(p) ==
    /\ task_A6_read(p) \/ task_A6_open(p) \/ task_A6_write(p)
    /\ UNCHANGED <<cwd, environ, op, arg, ops>>

(* ------------------------------ task_A10 ------------------------------ *)
NoneStr == <<"N", "o", "n", "e">>
RECURSIVE sum_gold(_)
\* SELECT SUM(units * price) FROM tickets WHERE type = 'Gold', over the rows
sum_gold(rows) ==
    IF rows = <<>> THEN 0
    ELSE (IF Head(rows).type = "Gold" THEN Head(rows).units * Head(rows).price ELSE 0)
         + sum_gold(Tail(rows))
has_gold(rows) == \E i \in 1..Len(rows) : rows[i].type = "Gold"
\* task_A10: check_path, sqlite3.connect (which creates a missing file), the
\* query
task_A10_read(p) ==
    /\ pc[p] = "A10"
    /\ IF ~(check_path(P.db, cwd) /\ check_path(P.db_out, cwd))
       THEN Fail(p, Msg.Forbidden)
       ELSE IF fs[node(P.db)].kind # "db"
       THEN /\ fs' = IF Exists(fs[node(P.db)]) THEN fs ELSE [fs EXCEPT ![node(P.db)] = Text(<<>>)]
            /\ Raise(p, Msg.Sqlite)
            /\ UNCHANGED loc
       ELSE Locals(p, fs[node(P.db)].val,
                   IF has_gold(fs[node(P.db)].val) THEN str(sum_gold(fs[node(P.db)].val)) ELSE NoneStr,
                   "A10_open")
task_A10_open(p) == pc[p] = "A10_open" /\ open_w(p, P.db_out, "A10_write")
task_A10_write(p) ==
    /\ pc[p] = "A10_write"
    /\ write_close(p, P.db_out, Text(loc[p].data), "Task A10 executed successfully.")
task_A10(p) ==
    /\ task_A10_read(p) \/ task_A10_open(p) \/ task_A10_write(p)
    /\ UNCHANGED <<cwd, environ, op, arg, ops>>

(* ----------------------------- sample data ---------------------------- *)

\* a text file of the given lines, each ended by a newline
RECURSIVE text_of(_)
text_of(lines) ==
    IF lines = <<>> THEN <<>> ELSE Head(lines) \o <<"\n">> \o text_of(Tail(lines))

\* lines dates.txt is made of
DateLines ==
    {Data.wed1, Data.thu, Data.wed2, Data.padded, Data.blank, Data.words, Data.nonleap, Data.short, Data.trailing}

\* contact records contacts.json is made of
Contacts ==
    {[last_name |-> <<"B">>, first_name |-> <<"Z">>],
     [last_name |-> <<"A">>, first_name |-> <<"Y">>],
     [last_name |-> <<"A">>, first_name |-> <<"Y">>, email |-> <<"e">>],
     [first_name |-> <<"Y">>],
     [last_name |-> <<"A", "b">>],
     [last_name |-> <<"a">>, first_name |-> <<>>]}

\* the input files datagen.py may leave under /data
Datasets ==
    {[dates |-> Text(text_of(<<Data.wed1, Data.thu, Data.wed2>>)),
      contacts |-> Json(<<[last_name |-> <<"B">>, first_name |-> <<"Z">>],
                          [last_name |-> <<"A">>, first_name |-> <<"Y">>]>>),
      logs |-> Dir(<<[name |-> Data.n_a_log, mtime |-> 1, first |-> Data.log_a],
                     [name |-> Data.n_notes, mtime |-> 3, first |-> Data.old_text],
                     [name |-> Data.n_b_log, mtime |-> 2, first |-> Data.log_b]>>),
      docs |-> Dir(<<[rel |-> Data.n_a_md, text |-> Data.md_a], [rel |-> Data.n_b_md, text |-> Data.md_b]>>),
      email |-> Text(Data.email_1),
      card |-> [kind |-> "bin", val |-> Data.png_1],
      comments |-> Text(Data.comments_1),
      db |-> [kind |-> "db", val |-> <<[type |-> "Gold", units |-> 2, price |-> 5],
                                        [type |-> "Silver", units |-> 1, price |-> 3],
                                        [type |-> "Gold", units |-> 1, price |-> 4]>>],
      format |-> Text(Data.format_raw)],
     [dates |-> Text(text_of(<<Data.thu, Data.short>>)),
      contacts |-> Text(Data.old_text),
      logs |-> Dir(<<[name |-> Data.n_notes, mtime |-> 1, first |-> Data.old_text]>>),
      docs |-> Dir(<<>>),
      email |-> Text(Data.email_2),
      card |-> [kind |-> "bin", val |-> Data.png_1],
      comments |-> Text(Data.comments_2),
      db |-> [kind |-> "db", val |-> <<>>],
      format |-> Missing]}

\* the tree after datagen.py wrote the dataset ds
write_dataset(f, ds) ==
    [f EXCEPT ![node(P.dates)] = ds.dates, ![node(P.contacts)] = ds.contacts, ![node(P.logs)] = ds.logs,
              ![node(P.docs)] = ds.docs, ![node(P.email)] = ds.email, ![node(P.card)] = ds.card,
              ![node(P.comments)] = ds.comments, ![node(P.db)] = ds.db, ![node(P.format_md)] = ds.format]

\* /data empty, with a file outside it
FsEmpty == [n \in Nodes |-> IF n = node(P.outside) THEN Text(Data.secret) ELSE Missing]
\* results of earlier runs present, the inputs gone
FsStale ==
    [n \in Nodes |-> IF n = node(P.outside) THEN Text(Data.secret)
                     ELSE IF \E path \in OutputPaths : n = node(path) THEN Text(Data.old_text)
                     ELSE Missing]

(* ------------------------------ task_A1 ------------------------------- *)
\* task_A1: USER_EMAIL, pip install uv, the download, the run of datagen.py
\* (which writes the input files under /data), os.remove
task_A1(p) ==
    /\ pc[p] = "A1"
    /\ IF environ.USER_EMAIL = <<>> THEN Fail(p, Msg.NoEmail)
       ELSE \/ \E m \in {Msg.Called, Msg.Download, Msg.Timeout} : Fail(p, m)
            \/ \E ds \in Datasets :
                   /\ fs' = write_dataset(fs, ds)
                   /\ Return(p, "Task A1 executed successfully.")
                   /\ UNCHANGED loc
    /\ UNCHANGED <<cwd, environ, op, arg, ops>>

(* ------------------------------ task_A2 ------------------------------- *)
\* what prettier --write leaves in the file: here, the text without trailing
\* blanks on its lines
prettier(text) ==
    LET lines == readlines(text)
    IN text_of([i \in 1..Len(lines) |-> rstrip(lines[i])])
\* task_A2: check_path, npx prettier@3.4.2 --write
task_A2(p) ==
    /\ pc[p] = "A2"
    /\ IF ~check_path(P.format_md, cwd) THEN Fail(p, Msg.Forbidden)
       ELSE IF ~Exists(fs[node(P.format_md)]) THEN Fail(p, Msg.Called)
       ELSE \/ Fail(p, Msg.Called)
            \/ /\ fs' = [fs EXCEPT ![node(P.format_md)] = Text(prettier(fs[node(P.format_md)].val))]
               /\ Return(p, "Task A2 executed successfully.")
               /\ UNCHANGED loc
    /\ UNCHANGED <<cwd, environ, op, arg, ops>>

(* --------------------------- specifications --------------------------- *)
\* the requests in `active` wait to arrive; the others never do
InitRequests(active) ==
    /\ pc = [p \in Req |-> IF p \in active THEN "idle" ELSE "off"]
    /\ op = [p \in Req |-> "none"]
    /\ arg = [p \in Req |-> <<>>]
    /\ loc = [p \in Req |-> NoLoc]
    /\ resp = [p \in Req |-> NoResp]
    /\ ops = {}

Environs == [AIPROXY_TOKEN : {<<>>, Data.tok}, USER_EMAIL : {<<>>, Data.mail}]

\* the steps of POST /run after the request arrived
run_steps(p) ==
    \/ run_task(p)
    \/ task_A1(p)
    \/ task_A2(p)
    \/ task_A3(p)
    \/ task_A4(p)
    \/ task_A5(p)
    \/ task_A6(p)
    \/ task_A7(p)
    \/ task_A8(p)
    \/ task_A9(p)
    \/ task_A10(p)

\* The server: NumReq requests, arriving and running in any interleaving (the
\* endpoints are plain `def` functions, which FastAPI runs on worker threads).
\* The workload is the requests that touch dates.txt and dates-wednesdays.txt:
\* task A1 (datagen.py rewrites dates.txt), task A3, and GET /read of the
\* result.
ServerTasks == {W.A1, W.A3}
ServerPaths == {P.dates_out}

Init ==
    /\ fs \in {write_dataset(FsEmpty, ds) : ds \in Datasets}
    /\ cwd = P.app
    /\ environ = [AIPROXY_TOKEN |-> Data.tok, USER_EMAIL |-> Data.mail]
    /\ InitRequests(Req)

Next ==
    \E p \in Req :
        \/ \E task \in ServerTasks : run_request(p, task)
        \/ \E path \in ServerPaths : read_request(p, path)
        \/ run_task(p)
        \/ task_A1(p)
        \/ task_A3(p)
        \/ read_file(p)

Spec == Init /\ [][Next]_vars

\* The router: one request, its task any description of at most MaxWords
\* phrases.
InitRoute ==
    /\ fs \in {FsStale, FsEmpty} \cup {write_dataset(f, ds) : f \in {FsStale, FsEmpty}, ds \in Datasets}
    /\ cwd = P.app
    /\ environ \in {[AIPROXY_TOKEN |-> <<>>, USER_EMAIL |-> <<>>],
                    [AIPROXY_TOKEN |-> Data.tok, USER_EMAIL |-> Data.mail]}
    /\ InitRequests({1})

RouteTasks == Descriptions(MaxWords)

NextRoute ==
    \/ pc[1] = "idle" /\ \E task \in RouteTasks : run_request(1, task)
    \/ run_steps(1)

SpecRoute == InitRoute /\ [][NextRoute]_vars

\* GET /read: one request, its path any of at most MaxComps components.
PathParts ==
    {<<"d", "a", "t", "a">>, <<"d", "a", "t", "a", "2">>,
     <<"d", "a", "t", "a", "b", "a", "s", "e">>, DotDot, <<"x">>,
     <<"d", "a", "t", "e", "s", ".", "t", "x", "t">>}
PathInputs(n) ==
    {pre \o join(Slash, cs) : pre \in {<<>>, Slash, <<"/", "/">>}, cs \in SeqsUpTo(PathParts, n)}

InitRead ==
    /\ fs \in {write_dataset(FsEmpty, ds) : ds \in Datasets}
    /\ cwd \in {P.app, P.data}
    /\ environ = [AIPROXY_TOKEN |-> Data.tok, USER_EMAIL |-> Data.mail]
    /\ InitRequests({1})

ReadPaths == PathInputs(MaxComps)

NextRead ==
    \/ pc[1] = "idle" /\ \E path \in ReadPaths : read_request(1, path)
    \/ read_file(1)

SpecRead == InitRead /\ [][NextRead]_vars

\* task_A3 on every dates.txt of at most MaxLines lines, the last line with or
\* without its newline.
DatesFiles(n) ==
    {Text(text_of(ls)) : ls \in SeqsUpTo(DateLines, n)}
    \cup {Text(join(<<"\n">>, ls)) : ls \in SeqsUpTo(DateLines, n)}

InitA3 ==
    /\ fs \in {[FsStale EXCEPT ![node(P.dates)] = c] : c \in DatesFiles(MaxLines) \cup {Missing}}
    /\ cwd = P.app
    /\ environ = [AIPROXY_TOKEN |-> Data.tok, USER_EMAIL |-> Data.mail]
    /\ InitRequests({1})

NextA3 ==
    \/ run_request(1, W.A3)
    \/ run_task(1)
    \/ task_A3(1)

SpecA3 == InitA3 /\ [][NextA3]_vars

\* task_A4 on every contacts.json of at most MaxContacts records.
InitA4 ==
    /\ fs \in {[FsStale EXCEPT ![node(P.contacts)] = c] :
                  c \in {Json(cs) : cs \in SeqsUpTo(Contacts, MaxContacts)}
                        \cup {Missing, Text(Data.old_text), [kind |-> "jsonobj", val |-> <<>>]}}
    /\ cwd = P.app
    /\ environ = [AIPROXY_TOKEN |-> Data.tok, USER_EMAIL |-> Data.mail]
    /\ InitRequests({1})

NextA4 ==
    \/ run_request(1, W.A4)
    \/ run_task(1)
    \/ task_A4(1)

SpecA4 == InitA4 /\ [][NextA4]_vars

(* ------------------------------- claims ------------------------------- *)
Done(p) == pc[p] = "done"
Running(p) == op[p] = "run" /\ pc[p] # "route"
IsError(r) == r.status >= 400
Is4xx(r) == r.status >= 400 /\ r.status <= 499
\* the positions of handler h
HandlerPcs(h) == {h, h \o "_open", h \o "_write"}
AnyHandlerPc == UNION {HandlerPcs(h) : h \in Handlers}

\* C1: a task description whose lowercased text contains "delete" is answered
\* with HTTP 400 and no handler runs for it, whatever else it contains.
C1_DeleteAlwaysRejected ==
    \A p \in Req :
        (Running(p) /\ contains(lower(arg[p]), K.delete))
            => /\ pc[p] \notin AnyHandlerPc
               /\ (Done(p) => resp[p].status = 400)

\* C2: a path whose canonical absolute form is not the sandbox root or below it
\* fails check_path, GET /read answers it with an error, and no filesystem call
\* (exists, open) is made on it.
C2_OutsidePathRejectedUntouched ==
    \A p \in Req :
        (op[p] = "read" /\ ~InsideRoot(abspath(arg[p], cwd)))
            => /\ ~check_path(arg[p], cwd)
               /\ pc[p] \in {"read_check", "done"}
               /\ \A o \in ops : o[1] # p
               /\ (Done(p) => IsError(resp[p]))

\* C3: the rules in their order, as predicates of the lowercased description
RuleNames ==
    <<"A1", "A2", "A3", "A4", "A5", "A6", "A7", "A8", "A9", "A10",
      "deny", "business", "unknown">>
RuleHolds(i, t) ==
    LET has(k) == contains(t, k)
    IN CASE i = 1 -> has(K.datagen_py) \/ (has(K.install_uv) /\ has(K.datagen))
         [] i = 2 -> has(K.prettier) /\ has(K.format_md)
         [] i = 3 -> has(K.dates_txt) /\ has(K.wednesday)
         [] i = 4 -> has(K.contacts_json) /\ has(K.sort)
         [] i = 5 -> has(K.logs) /\ has(K.dot_log) /\ has(K.first_line)
         [] i = 6 -> has(K.docs) /\ has(K.dot_md) /\ (has(K.index) \/ has(K.h1))
         [] i = 7 -> has(K.email_txt) /\ has(K.email_sender)
         [] i = 8 -> has(K.credit_card_png)
         [] i = 9 -> has(K.comments_txt) /\ has(K.similar)
         [] i = 10 -> has(K.ticket_sales_db) /\ has(K.gold)
         [] i = 11 -> has(K.delete) \/ has(K.rm)
         [] i = 12 -> \E k \in {K.fetch_data, K.clone, K.sql_query, K.scrape, K.compress,
                                 K.resize, K.transcribe, K.convert_markdown, K.csv} : has(k)
         [] OTHER -> TRUE
\* the first rule, from the i-th on, that holds
RECURSIVE FirstFrom(_, _)
FirstFrom(i, t) == IF RuleHolds(i, t) THEN i ELSE FirstFrom(i + 1, t)
FirstRule(task) == RuleNames[FirstFrom(1, lower(task))]
SuccessOf(h) == "Task " \o h \o " executed successfully."
RouterDetails == {Msg.Deletion, Msg.NotRecognized}

\* C3: the outcome of a POST /run is that of the first rule, in the order A1 ..
\* A10, deletion denial, business bucket, unrecognized, whose predicate holds
\* of the lowercased description: only that rule's handler ever runs, and the
\* router's own answers are given only when no handler rule precedes them.
C3_FirstMatchWins ==
    \A p \in Req :
        Running(p) =>
            LET r == FirstRule(arg[p])
            IN /\ pc[p] # "done" => pc[p] \in HandlerPcs(r) /\ r \in Handlers
               /\ (Done(p) /\ r = "deny") => resp[p] = HTTPException(400, Msg.Deletion)
               /\ (Done(p) /\ r = "unknown") => resp[p] = HTTPException(400, Msg.NotRecognized)
               /\ (Done(p) /\ r = "business") =>
                      resp[p].status = 200 /\ resp[p].message = "Business task executed (stub)."
               /\ (Done(p) /\ r \in Handlers) =>
                      /\ resp[p].detail \notin RouterDetails
                      /\ resp[p].status = 200 => resp[p].message = SuccessOf(r)

\* C3 witness: a description that satisfies the predicates of two handlers (A3
\* and A8) has run the earlier one to its end.
C3_Witness ==
    \E p \in Req :
        /\ Done(p) /\ op[p] = "run"
        /\ RuleHolds(3, lower(arg[p])) /\ RuleHolds(8, lower(arg[p]))
        /\ resp[p].message = SuccessOf("A3")

\* C4: a failed POST /run is answered 400 exactly when the router rejected the
\* description (unrecognized, or a forbidden deletion), and 500 when a handler
\* raised, whatever the exception's message.
C4_StatusByOrigin ==
    \A p \in Req :
        (Done(p) /\ op[p] = "run" /\ resp[p].status # 200)
            => /\ resp[p].status \in {400, 500}
               /\ resp[p].status = 400 <=> process_task(arg[p]) \in {"deny", "unknown"}

\* C5: GET /read answers a path outside the sandbox root, and a path inside it
\* that names no existing file, with a 4xx status (404 for the missing file),
\* and answers 500 only for other errors.
C5_ReadShapeErrorsAre4xx ==
    \A p \in Req :
        (Done(p) /\ op[p] = "read")
            => LET a == abspath(arg[p], cwd)
               IN /\ ~InsideRoot(a) => Is4xx(resp[p])
                  /\ (InsideRoot(a) /\ ~path_exists(arg[p])) => resp[p].status = 404
                  /\ resp[p].status = 500 => (InsideRoot(a) /\ path_exists(arg[p]))

\* C6: what each sample line of dates.txt denotes once trimmed: <<year, month,
\* day>>, or <<>> for a line that is blank or is not a date in the YYYY-MM-DD
\* form
DateMeaning(line) ==
    CASE line = Data.wed1 -> <<2024, 1, 3>>
      [] line = Data.thu -> <<2024, 1, 4>>
      [] line = Data.wed2 -> <<2024, 1, 10>>
      [] line = Data.padded -> <<2024, 1, 17>>
      [] line = Data.short -> <<2024, 1, 3>>
      [] line = Data.nonleap -> <<2023, 2, 29>>
      [] OTHER -> <<>>
\* the calendar: month lengths, and the day of the week by Sakamoto's method
\* (0 is Sunday, so 3 is Wednesday)
MonthLengths(y) ==
    <<31, IF (y % 4 = 0 /\ y % 100 # 0) \/ y % 400 = 0 THEN 29 ELSE 28,
      31, 30, 31, 30, 31, 31, 30, 31, 30, 31>>
MonthOffsets == <<0, 3, 2, 5, 0, 3, 5, 1, 4, 6, 2, 4>>
DayOfWeek(y, m, d) ==
    LET yy == IF m < 3 THEN y - 1 ELSE y
    IN (yy + (yy \div 4) - (yy \div 100) + (yy \div 400) + MonthOffsets[m] + d) % 7
IsWednesdayLine(line) ==
    LET ymd == DateMeaning(line)
    IN /\ ymd # <<>>
       /\ ymd[3] <= MonthLengths(ymd[1])[ymd[2]]
       /\ DayOfWeek(ymd[1], ymd[2], ymd[3]) = 3
\* the number of lines of a text that are Wednesdays
WednesdayLines(text) ==
    LET ls == split(text, "\n")
    IN Cardinality({i \in 1..Len(ls) : IsWednesdayLine(ls[i])})

\* C6: whatever dates.txt holds, task A3 succeeds and writes to
\* dates-wednesdays.txt the number of its lines that, trimmed, are a date falling
\* on a Wednesday; blank and unparseable lines are skipped and not counted.
C6_CountsWednesdays ==
    \A p \in Req :
        (Done(p) /\ op[p] = "run" /\ process_task(arg[p]) = "A3"
                 /\ Exists(fs[node(P.dates)]))
            => /\ resp[p].status = 200
               /\ fs[node(P.dates_out)]
                      = Text(str(WednesdayLines(fs[node(P.dates)].val)))

\* C6 witness: the lines 2024-01-03, 2024-01-04, 2024-01-10 gave 2.
C6_Witness ==
    \E p \in Req :
        /\ Done(p) /\ resp[p].status = 200
        /\ fs[node(P.dates)] = Text(text_of(<<Data.wed1, Data.thu, Data.wed2>>))
        /\ fs[node(P.dates_out)] = Text(<<"2">>)

\* C7: the sort key of a record, a missing field being the empty string
KeyOf(x) ==
    <<IF "last_name" \in DOMAIN x THEN x.last_name ELSE <<>>,
      IF "first_name" \in DOMAIN x THEN x.first_name ELSE <<>>>>
KeyLess(a, b) == str_lt(a[1], b[1]) \/ (a[1] = b[1] /\ str_lt(a[2], b[2]))
\* out is inp reordered by a permutation that puts the keys in non-decreasing
\* order and keeps the input order of records with equal keys
IsStableSortOf(out, inp) ==
    /\ Len(out) = Len(inp)
    /\ \E s \in [1..Len(inp) -> 1..Len(inp)] :
           /\ \A i, j \in 1..Len(inp) : i # j => s[i] # s[j]
           /\ \A i \in 1..Len(inp) : out[i] = inp[s[i]]
           /\ \A i, j \in 1..Len(inp) :
                  i < j => /\ ~KeyLess(KeyOf(out[j]), KeyOf(out[i]))
                           /\ KeyOf(out[i]) = KeyOf(out[j]) => s[i] < s[j]

\* C7: for every list of contact records in contacts.json, task A4 writes to
\* contacts-sorted.json a permutation of the list, in non-decreasing order of
\* (last_name, first_name) with a missing field as the empty string, records of
\* equal keys in their input order.
C7_SortedStablePermutation ==
    \A p \in Req :
        (Done(p) /\ op[p] = "run" /\ process_task(arg[p]) = "A4"
                 /\ fs[node(P.contacts)].kind = "json")
            => /\ resp[p].status = 200
               /\ fs[node(P.contacts_out)].kind = "json"
               /\ IsStableSortOf(fs[node(P.contacts_out)].val, fs[node(P.contacts)].val)

\* C7 witness: the list (B, Z), (A, Y) was written as (A, Y), (B, Z).
C7_Witness ==
    \E p \in Req :
        /\ Done(p) /\ resp[p].status = 200
        /\ fs[node(P.contacts)] = Json(<<[last_name |-> <<"B">>, first_name |-> <<"Z">>],
                                         [last_name |-> <<"A">>, first_name |-> <<"Y">>]>>)
        /\ fs[node(P.contacts_out)] = Json(<<[last_name |-> <<"A">>, first_name |-> <<"Y">>],
                                             [last_name |-> <<"B">>, first_name |-> <<"Z">>]>>)

NoLogFiles == glob_logs(fs[node(P.logs)]) = <<>>

\* C8 as stated: a request whose description contains "logs" and "first line",
\* made when the logs directory holds no .log file, fails, and no step taken
\* while that holds creates or modifies logs-recent.txt.
C8_AsStated ==
    [][\A p \in Req :
          (/\ op[p] = "run"
           /\ contains(lower(arg[p]), K.logs) /\ contains(lower(arg[p]), K.first_line)
           /\ NoLogFiles)
              => /\ fs'[node(P.logs_out)] = fs[node(P.logs_out)]
                 /\ (pc'[p] = "done" /\ pc[p] # "done") => resp'[p].status # 200]_vars

\* C8 amended: a request that the router gives to task A5 (its description
\* contains "logs", ".log" and "first line" and satisfies no rule of A1 .. A4),
\* made when the logs directory holds no .log file, goes from the router to the
\* handler and from there to a 500 response, and no step taken meanwhile creates
\* or modifies logs-recent.txt.
C8_NoLogFilesFails ==
    [][\A p \in Req :
          (/\ op[p] = "run" /\ pc[p] # "done"
           /\ process_task(arg[p]) = "A5"
           /\ NoLogFiles)
              => /\ fs'[node(P.logs_out)] = fs[node(P.logs_out)]
                 /\ pc'[p] \in {"route", "A5", "done"}
                 /\ pc'[p] = "done" => resp'[p] = HTTPException(500, Msg.NoLogs)]_vars

\* C8 witness: a request given to A5 with no .log file was answered 500.
C8_Witness ==
    \E p \in Req :
        /\ Done(p) /\ op[p] = "run" /\ process_task(arg[p]) = "A5"
        /\ NoLogFiles
        /\ fs[node(P.logs)].kind = "dir"
        /\ resp[p] = HTTPException(500, Msg.NoLogs)
        /\ fs[node(P.logs_out)] = Text(Data.old_text)

\* C9: every write of dates-wednesdays.txt is the open or the write step of some
\* task A3 request, with no regard to the other requests: the open empties the
\* file, and the write stores the count of the lines that request itself read,
\* whatever dates.txt and the file hold by then, so the last write to finish
\* decides the content; and GET /read returns what the file holds at the moment
\* of its open.
C9_LastWriteWins ==
    [][\A p \in Req :
          /\ (pc[p] = "A3_open" /\ pc'[p] # pc[p])
                 => fs'[node(P.dates_out)] = Text(<<>>)
          /\ (pc[p] = "A3_write" /\ pc'[p] # pc[p])
                 => fs'[node(P.dates_out)] = Text(str(WednesdayLines(loc[p].snap)))
          /\ (pc[p] = "read_open" /\ pc'[p] # pc[p] /\ resp'[p].status = 200)
                 => resp'[p].content = fs[node(resolve(arg[p], cwd))]]_vars

\* C9 witness: two task A3 requests are both between their read of dates.txt and
\* the end of their write, having read different contents.
C9_Witness ==
    \E p, q \in Req :
        /\ p # q
        /\ pc[p] \in {"A3_open", "A3_write"}
        /\ pc[q] \in {"A3_open", "A3_write"}
        /\ loc[p].snap # loc[q].snap

\* C9, second case: a GET /read returned the empty file while the task A3
\* request that emptied it had not yet written.
C9_ReadSawEmptyFile ==
    \E p, q \in Req :
        /\ pc[p] = "A3_write"
        /\ Done(q) /\ op[q] = "read" /\ resp[q].status = 200
        /\ resp[q].content = Text(<<>>)

\* C10: the output file of each handler that ends by writing one
OutputOf(h) ==
    CASE h = "A3" -> P.dates_out
      [] h = "A4" -> P.contacts_out
      [] h = "A5" -> P.logs_out
      [] h = "A7" -> P.email_out
      [] h = "A8" -> P.card_out
      [] h = "A9" -> P.comments_out
WritingHandlers == {"A3", "A4", "A5", "A7", "A8", "A9"}

\* C10: in A3, A4, A5, A7, A8 and A9 the write of the output file is the last
\* step: while a request is in the handler before its open-for-write, no step
\* changes the output file, the request leaves that part either to the open or
\* with an error response, and success is returned by the write step alone.
C10_WriteIsLastStep ==
    [][\A p \in Req : \A h \in WritingHandlers :
          /\ pc[p] = h =>
                 /\ fs'[node(OutputOf(h))] = fs[node(OutputOf(h))]
                 /\ pc'[p] # pc[p] =>
                        \/ pc'[p] = h \o "_open" /\ resp'[p] = resp[p]
                        \/ pc'[p] = "done" /\ IsError(resp'[p])
          /\ (pc[p] \in HandlerPcs(h) /\ pc'[p] = "done" /\ resp'[p].status = 200)
                 => pc[p] = h \o "_write"]_vars

\* C10 witness: task A7 failed in its LLM call and email-sender.txt still holds
\* what it held.
C10_Witness ==
    \E p \in Req :
        /\ Done(p) /\ op[p] = "run" /\ process_task(arg[p]) = "A7"
        /\ Exists(fs[node(P.email)])
        /\ resp[p] = HTTPException(500, Msg.Timeout)
        /\ fs[node(P.email_out)] = Text(Data.old_text)
=============================================================================
